---------------------------- MODULE Spec2Model ----------------------------
(***************************************************************************)
(* A model of the combine-video HTTP servers.                              *)
(*                                                                         *)
(* The repository holds several alternative server files.  Each of them    *)
(* is one Node.js process: a single-threaded event loop in which the code  *)
(* between two awaits (or between two callbacks) runs atomically, while    *)
(* external processes (yt-dlp, ffmpeg), streams, timers and asynchronous   *)
(* fs calls complete at arbitrary later times.  One action of the model is *)
(* one such atomic run of JavaScript: the arrival of a request, or the     *)
(* completion of the operation a request is waiting for.                   *)
(*                                                                         *)
(*   server = "cookie"   src/unnamed/part_001   (yt-dlp + rotating cookies)*)
(*   server = "proxy"    src/server-segment-two.js (ytdl + retryOperation) *)
(*   server = "combine"  src/server.js          (callback chained)         *)
(*   server = "retry"    retryOperation of src/server-segment-two.js,      *)
(*                       called directly with a scripted operation         *)
(***************************************************************************)
EXTENDS Integers, Sequences, FiniteSets, TLC

VARIABLES
  server,      \* which server file this process runs
  now,         \* the value Date.now() returns
  fs,          \* downloads/ and videos/: path -> content of the existing files
  cookies,     \* the cookie files present in youtube-cookies/
  req,         \* per request: the handler's locals and its position
  revoked,     \* history: cookie files classified as bad so far
  reused,      \* history: cookie files passed to a command after that
  evicted,     \* history: cookie files rejected in a run that then succeeded
  proxyPool,   \* the proxyPool object of server-segment-two.js
  rt,          \* a direct call of retryOperation, outside any handler
  inputs,      \* "narrow" | "wide" | "solo": the request bodies drawn
  faults,      \* the environment faults injected so far
  call         \* a direct call of isCookieError, outside any handler

vars == <<server, now, fs, cookies, req, revoked, reused, evicted, proxyPool, rt,
          inputs, faults, call>>

\* The cookie directory and its history.
cookieVars == <<cookies, revoked, reused, evicted>>
\* What the handlers of part_001 and server.js never change.
fixedVars == <<server, inputs, proxyPool, rt, call>>

---------------------------------------------------------------------------
(* Bounds of the model.                                                    *)

NReq == 2          \* requests handled in one behaviour
MaxClock == 2      \* Date.now() returns 1..MaxClock
NCookies == 2      \* cookie files in youtube-cookies/ at start-up
MaxRetriesArg == 3 \* retryOperation is called with maxRetries in 1..MaxRetriesArg
MaxFaults == 1     \* environment faults injected in one behaviour

Reqs == 1..NReq
Cookies == 1..NCookies

---------------------------------------------------------------------------
(* Text.  A JavaScript string is a sequence of one-character strings.      *)

UpperChars == <<"A","B","C","D","E","F","G","H","I","J","K","L","M","N","O","P","Q","R","S","T","U","V","W","X","Y","Z">>
LowerChars == <<"a","b","c","d","e","f","g","h","i","j","k","l","m","n","o","p","q","r","s","t","u","v","w","x","y","z">>

LowerChar(c) ==
  IF \E i \in 1..Len(UpperChars) : UpperChars[i] = c
  THEN LowerChars[CHOOSE i \in 1..Len(UpperChars) : UpperChars[i] = c]
  ELSE c

\* String.prototype.toLowerCase
ToLowerCase(s) == [i \in 1..Len(s) |-> LowerChar(s[i])]

\* String.prototype.includes
Includes(s, pat) ==
  \E i \in 0..(Len(s) - Len(pat)) : SubSeq(s, i + 1, i + Len(pat)) = pat

DigitChars == <<"0","1","2","3","4","5","6","7","8","9">>
IsDigit(c) == \E i \in 1..10 : DigitChars[i] = c
DigitVal(c) == (CHOOSE i \in 1..10 : DigitChars[i] = c) - 1

---------------------------------------------------------------------------
(* Request bodies.  A JSON value is undefined (field absent), a number or  *)
(* a string.                                                               *)

JUndef == [t |-> "undef", n |-> 0, s |-> << >>]
JNum(k) == [t |-> "num", n |-> k, s |-> << >>]
JStr(chars) == [t |-> "str", n |-> 0, s |-> chars]

\* A parsed number: NaN or an integer.
NaN == [nan |-> TRUE, v |-> 0]
Num(k) == [nan |-> FALSE, v |-> k]

RECURSIVE DigitPrefixLen(_)
DigitPrefixLen(s) ==
  IF s = << >> \/ ~IsDigit(Head(s)) THEN 0 ELSE 1 + DigitPrefixLen(Tail(s))

RECURSIVE DecimalValue(_)
DecimalValue(s) ==
  IF s = << >> THEN 0 ELSE 10 * DecimalValue(SubSeq(s, 1, Len(s) - 1)) + DigitVal(s[Len(s)])

RECURSIVE SkipSpaces(_)
SkipSpaces(s) == IF s # << >> /\ Head(s) = " " THEN SkipSpaces(Tail(s)) ELSE s

\* parseFloat on a string over digits, letters, blanks and "-": leading
\* blanks are skipped, then an optional sign and the longest run of digits
\* is read; what follows is ignored; no digit at all gives NaN.
ParseFloatStr(s0) ==
  LET s == SkipSpaces(s0)
      neg == s # << >> /\ Head(s) = "-"
      body == IF neg THEN Tail(s) ELSE s
      k == DigitPrefixLen(body)
  IN IF k = 0 THEN NaN
     ELSE Num((IF neg THEN -1 ELSE 1) * DecimalValue(SubSeq(body, 1, k)))

\* parseFloat(x): x is converted to a string first ("undefined" for undefined).
ParseFloat(x) ==
  CASE x.t = "undef" -> NaN
    [] x.t = "num" -> Num(x.n)
    [] OTHER -> ParseFloatStr(x.s)

IsNaN(p) == p.nan
\* A comparison start > end where the code has start >= end.
NumGT(a, b) == ~a.nan /\ ~b.nan /\ a.v > b.v
\* a >= b on numbers: false when either side is NaN
NumGE(a, b) == ~a.nan /\ ~b.nan /\ a.v >= b.v

\* The source fields (mainUrl, backgroundUrl, mainVideoId, ...) by kind.
\*   "undef"  field absent          "empty"  the empty string
\*   "id"     an 11-character id    "url"    a YouTube watch URL
\*   "junk"   another non-empty string
SourceKinds == {"undef", "empty", "id", "url", "junk"}
Falsy(src) == src \in {"undef", "empty"}

---------------------------------------------------------------------------
(* Errors of child_process.exec, and isCookieError.                        *)

YtDlpCookieCmd == <<"y","t","-","d","l","p"," ","-","-","n","o","-","c","h","e","c","k","-","c","e","r","t","i","f","i","c","a","t","e"," ","-","-","c","o","o","k","i","e","s">>
CommandFailedPrefix == <<"C","o","m","m","a","n","d"," ","f","a","i","l","e","d",":"," ">>
MaxBufferMessage == <<"s","t","d","o","u","t"," ","m","a","x","B","u","f","f","e","r"," ","l","e","n","g","t","h"," ","e","x","c","e","e","d","e","d">>
StderrForbidden == <<"E","R","R","O","R",":"," ","H","T","T","P"," ","E","r","r","o","r"," ","4","0","3",":"," ","F","o","r","b","i","d","d","e","n">>
StderrNetwork == <<"E","R","R","O","R",":"," ","U","n","a","b","l","e"," ","t","o"," ","d","o","w","n","l","o","a","d",":"," ","t","i","m","e","d"," ","o","u","t">>
NoCookiesMessage == <<"N","o"," ","v","a","l","i","d"," ","c","o","o","k","i","e"," ","f","i","l","e","s"," ","r","e","m","a","i","n","i","n","g">>

IndLoad == <<"u","n","a","b","l","e"," ","t","o"," ","l","o","a","d"," ","c","o","o","k","i","e","s">>
IndCookie == <<"c","o","o","k","i","e">>
IndCert == <<"c","e","r","t","i","f","i","c","a","t","e">>
Ind403 == <<"4","0","3">>
IndForbidden == <<"f","o","r","b","i","d","d","e","n">>

\* An isCookieError that compares without lower-casing.
isCookieErrorCaseSensitive(message, stderr) ==
  LET msg == message \o stderr
  IN \/ Includes(msg, IndLoad)
     \/ Includes(msg, IndCookie)
     \/ Includes(msg, IndCert)
     \/ Includes(msg, Ind403)
     \/ Includes(msg, IndForbidden)

\* isCookieError(err, stderr): (err.message + stderr).toLowerCase() holds one
\* of the indicators.
isCookieError(message, stderr) ==
  LET msg == ToLowerCase(message \o stderr)
  IN \/ Includes(msg, IndLoad)
     \/ Includes(msg, IndCookie)
     \/ Includes(msg, IndCert)
     \/ Includes(msg, Ind403)
     \/ Includes(msg, IndForbidden)

\* What yt-dlp wrote to stderr before the exec ended in an error.
StderrKinds == {"none", "forbidden", "network"}
StderrText(k) ==
  CASE k = "forbidden" -> StderrForbidden
    [] k = "network" -> StderrNetwork
    [] OTHER -> << >>

\* How an exec of the yt-dlp command line ends in an error: the process
\* exits with a non-zero code, or its output overflows exec's maxBuffer.
ExecErrorKinds == {"exit", "maxbuf"}

\* err.message of the error exec reports: for a non-zero exit it is
\* "Command failed: " + the command line + "\n" + stderr.
ExecErrorMessage(kind, cmd, stderr) ==
  IF kind = "exit"
  THEN CommandFailedPrefix \o cmd \o <<"\n">> \o StderrText(stderr)
  ELSE MaxBufferMessage

\* isCookieError(err, err.stderr) for each error of the yt-dlp command.
YtDlpErrorIsCookie ==
  [k \in ExecErrorKinds, e \in StderrKinds |->
     isCookieError(ExecErrorMessage(k, YtDlpCookieCmd, e), StderrText(e))]

---------------------------------------------------------------------------
(* The file system: downloads/ and videos/.  A path is <<dir, name, ts>>,  *)
(* the file `${name}-${ts}` of directory dir.  A file's content records    *)
(* its size (0 or positive) and the request whose data it holds.           *)

Path(dir, name, ts) == <<dir, name, ts>>
Content(size, by) == [size |-> size, by |-> by]

Exists(f, p) == p \in DOMAIN f
WriteFile(f, p, c) == [q \in (DOMAIN f) \cup {p} |-> IF q = p THEN c ELSE f[q]]
RemoveFile(f, p) == [q \in (DOMAIN f) \ {p} |-> f[q]]
RemoveFiles(f, ps) == [q \in (DOMAIN f) \ ps |-> f[q]]
Range(seq) == {seq[i] : i \in 1..Len(seq)}
\* fs.statSync(p).size === 0 (only asked of an existing file)
IsEmptyFile(f, p) == f[p].size = 0
NoFiles == [p \in {} |-> Content(0, 0)]

\* The environment faults of a step: a process that exits with code 0 and
\* leaves an empty output, a failed process that leaves a partial output, an
\* fs call that fails on an existing file.  A behaviour has at most
\* MaxFaults of them; a process that fails is no fault.
Inject(n) == faults + n <= MaxFaults /\ faults' = faults + n
Bit(b) == IF b THEN 1 ELSE 0

---------------------------------------------------------------------------
(* Requests.                                                               *)

Body(main, bg, ss, es) == [main |-> main, bg |-> bg, ss |-> ss, es |-> es]

\* The handler's locals.  ghost fields: dl (the downloads that completed
\* successfully), ran (the steps the request has started), unhandled (an
\* exception or rejection escaped the handler), rej (the cookies the running
\* runWithRotatingCookies call has rejected).
IdleReq ==
  [ep |-> "none", pc |-> "idle", body |-> Body("undef", "undef", JUndef, JUndef),
   ts |-> 0, resp |-> 0, nresp |-> 0, err |-> "",
   cookieFiles |-> << >>, ci |-> 0, rej |-> {}, attempt |-> 0,
   unhandled |-> FALSE, dl |-> {}, ran |-> {}, closed |-> FALSE]

\* The handler has returned: its locals are gone.
Done(q) ==
  [q EXCEPT !.pc = "done", !.cookieFiles = << >>, !.ci = 0, !.rej = {},
            !.attempt = 0]

\* startSeconds / endSeconds of the bodies requests are drawn from.
NarrowStarts == {JNum(1)}
NarrowEnds == {JStr(<<"2">>), JStr(<<"a">>)}
WideSeconds ==
  {JUndef, JStr(<< >>), JStr(<<"a">>), JStr(<<"a", "1">>), JStr(<<"1", "a">>),
   JStr(<<" ", "2">>), JStr(<<"-", "1">>), JStr(<<"1", "0">>), JNum(0), JNum(3)}
StartValues == IF inputs = "wide" THEN WideSeconds ELSE NarrowStarts
EndValues == IF inputs = "wide" THEN WideSeconds ELSE NarrowEnds
SourceValues == IF inputs = "wide" THEN SourceKinds ELSE {"id"}

\* Date.now(): the clock has not gone back since the last call, and the
\* first call of a behaviour returns 1.
DateNow == IF now = 0 THEN {1} ELSE {t \in {now, now + 1} : t <= MaxClock}

\* const start = parseFloat(startSeconds); const end = parseFloat(endSeconds);
Start(q) == ParseFloat(q.body.ss)
End(q) == ParseFloat(q.body.es)
\* const duration = end - start;
Duration(q) == End(q).v - Start(q).v

\* A time window in seconds.
Window(from, to) == [from |-> from, to |-> to]

\* The window of the main segment of POST /get-video-urls: part_001 asks
\* yt-dlp for --download-sections "*${start}-${end}"; server-segment-two.js
\* downloads the whole video and cuts it with setStartTime(start) and
\* duration(duration).
MainWindow(q) ==
  IF server = "cookie" THEN Window(Start(q).v, End(q).v)
  ELSE Window(Start(q).v, Start(q).v + Duration(q))

\* A background window that mirrors the absolute window of the main segment.
BackgroundWindowMirrored(q) == Window(Start(q).v, End(q).v)

\* The window of the background segment: --download-sections "*0-${duration}"
\* in part_001, setStartTime(0) and duration(duration) in
\* server-segment-two.js.
BackgroundWindow(q) ==
  IF server = "cookie" THEN Window(0, Duration(q))
  ELSE Window(0, 0 + Duration(q))

\* Requests arrive in the order of their numbers; with wide inputs the
\* behaviour has one request.
MayArrive(r) ==
  /\ req[r].pc = "idle"
  /\ IF r = 1 THEN TRUE ELSE inputs = "narrow" /\ req[r - 1].pc # "idle"

\* res.status(code).json(...) / res.json(...): the first call sends the
\* response, unless the socket of the request was destroyed before; nresp
\* counts the calls.
Respond(q, code, err) ==
  [q EXCEPT !.resp = IF q.resp = 0 /\ ~q.closed THEN code ELSE q.resp,
            !.nresp = q.nresp + 1,
            !.err = IF q.resp = 0 /\ ~q.closed THEN err ELSE q.err]

\* The temporary and public paths of a request, from its timestamp.
MainSegmentPath(q) == Path("downloads", "main", q.ts)
BackgroundSegmentPath(q) == Path("downloads", "background", q.ts)
MainReencodedPath(q) == Path("downloads", "main-reencoded", q.ts)
BackgroundReencodedPath(q) == Path("downloads", "background-reencoded", q.ts)
PublicMainPath(q) == Path("videos", "main", q.ts)
PublicBackgroundPath(q) == Path("videos", "background", q.ts)
AudioOutputPath(q) == Path("downloads", "audio", q.ts)

\* The unlinks of a cleanup that fail: those of a missing file (ENOENT),
\* and at most one of an existing file (an I/O or permission error).
Missing(ps) == {p \in ps : ~Exists(fs, p)}
UnlinkFailures(ps) == {Missing(ps)} \cup {Missing(ps) \cup {p} : p \in ps}

---------------------------------------------------------------------------
(* server "cookie": src/unnamed/part_001                                   *)

RECURSIVE SortedSeq(_)
SortedSeq(S) ==
  IF S = {} THEN << >>
  ELSE LET m == CHOOSE x \in S : \A y \in S : x <= y
       IN <<m>> \o SortedSeq(S \ {m})

\* getCookieFiles(): the cookie files of the directory, in directory order
getCookieFiles == SortedSeq(cookies)

\* The paths the failure cleanup of an endpoint unlinks.
CookieFailurePaths(q) ==
  IF q.ep = "gv"
  THEN {MainSegmentPath(q), BackgroundSegmentPath(q),
        MainReencodedPath(q), BackgroundReencodedPath(q)}
  ELSE {MainSegmentPath(q), AudioOutputPath(q)}

\* catch (error): res.status(500).json({ error: error.message }), then the
\* unlinks of the failure cleanup are issued and awaited.
CookieCatch(q, err) == [Respond(q, 500, err) EXCEPT !.pc = "cleanupFail"]

\* A loop without the throw after it: with the list used up the call
\* returns as if a download had succeeded, and the handler's failure path
\* is never entered.
CookieLoopReturns(q, files, i, step) ==
  IF i <= Len(files)
  THEN [q EXCEPT !.pc = step, !.cookieFiles = files, !.ci = i,
                 !.rej = IF i = 1 THEN {} ELSE @ \cup {files[i - 1]},
                 !.ran = @ \cup {step}]
  ELSE Done(Respond(q, 200, ""))

\* runWithRotatingCookies, the for loop at the i-th cookie of the list it
\* took at its start: the command is built with that cookie and exec'ed, or
\* the list is exhausted and 'No valid cookie files remaining' is thrown.
CookieLoop(q, files, i, step) ==
  IF i <= Len(files)
  THEN [q EXCEPT !.pc = step, !.cookieFiles = files, !.ci = i,
                 !.rej = IF i = 1 THEN {} ELSE @ \cup {files[i - 1]},
                 !.ran = @ \cup {step}]
  ELSE CookieCatch(q, "nocookies")

\* The cookie file the command of that iteration is built with.
CookieLoopUses(files, i) == IF i <= Len(files) THEN {files[i]} ELSE {}

\* The validation of POST /get-video-urls and POST /extract-audio.
CookieInvalid(q) ==
  \/ Falsy(q.body.main)
  \/ q.ep = "gv" /\ Falsy(q.body.bg)
  \/ IsNaN(Start(q))
  \/ IsNaN(End(q))
  \/ NumGE(Start(q), End(q))

\* A request arrives: validation, the paths, and the first download starts.
CookieReceive(r) ==
  /\ server = "cookie"
  /\ MayArrive(r)
  /\ \E ep \in {"gv", "ea"}, main \in SourceValues, bg \in SourceValues,
        ss \in StartValues, es \in EndValues :
       /\ ep = "ea" => bg = main
       /\ LET q0 == [req[r] EXCEPT !.ep = ep, !.body = Body(main, bg, ss, es)]
          IN IF CookieInvalid(q0)
             THEN /\ req' = [req EXCEPT ![r] =
                               Done(Respond(q0, 400, "invalid"))]
                  /\ UNCHANGED <<now, reused>>
             ELSE \E t \in DateNow :
                    LET q1 == [q0 EXCEPT !.ts = t]
                        files == getCookieFiles
                        step == IF ep = "gv" THEN "dlMain" ELSE "dlAudio"
                    IN /\ now' = t
                       /\ req' = [req EXCEPT ![r] = CookieLoop(q1, files, 1, step)]
                       /\ reused' = reused \cup (CookieLoopUses(files, 1) \cap revoked)
  /\ UNCHANGED <<fs, cookies, revoked, evicted, fixedVars, faults>>

\* A rotation that lets the error of unlinkSync leave the loop.
CookieUnlinkRethrows(threw) == IF threw THEN "throw" ELSE "continue"

\* try { fsSync.unlinkSync(cookiePath) } catch (unlinkErr) { console.error }
\* continue: whether the unlink threw or not, the loop goes on.
AfterCookieUnlink(threw) == "continue"

\* The exec of a yt-dlp command ends in an error of the given kind, with
\* the given text on stderr: the catch block of runWithRotatingCookies.
CookieExecFails(r, kind, stderr) ==
  LET q == req[r]
      out == IF q.pc = "dlBg" THEN BackgroundSegmentPath(q) ELSE MainSegmentPath(q)
      c == q.cookieFiles[q.ci]
  IN \E leaves \in BOOLEAN, unlinkOk \in BOOLEAN :
       /\ unlinkOk \/ (c \in cookies /\ YtDlpErrorIsCookie[kind, stderr])
       /\ Inject(Bit(leaves) + Bit(~unlinkOk))
       /\ fs' = IF leaves THEN WriteFile(fs, out, Content(0, r)) ELSE fs
       /\ IF YtDlpErrorIsCookie[kind, stderr]
          THEN /\ revoked' = revoked \cup {c}
               /\ cookies' = IF unlinkOk THEN cookies \ {c} ELSE cookies
               /\ IF AfterCookieUnlink(c \notin cookies \/ ~unlinkOk) = "continue"
                  THEN /\ req' = [req EXCEPT ![r] =
                            CookieLoop(q, q.cookieFiles, q.ci + 1, q.pc)]
                       /\ reused' = reused \cup
                            (CookieLoopUses(q.cookieFiles, q.ci + 1) \cap revoked')
                  ELSE /\ req' = [req EXCEPT ![r] = CookieCatch(q, "unlink")]
                       /\ reused' = reused
          ELSE /\ req' = [req EXCEPT ![r] = CookieCatch(q, kind)]
               /\ UNCHANGED <<cookies, revoked, reused>>
       /\ evicted' = evicted

\* The exec of a yt-dlp command ends.
CookieYtDlpExit(r) ==
  /\ server = "cookie"
  /\ req[r].pc \in {"dlMain", "dlBg", "dlAudio"}
  /\ LET q == req[r]
         out == IF q.pc = "dlBg" THEN BackgroundSegmentPath(q) ELSE MainSegmentPath(q)
         c == q.cookieFiles[q.ci]
     IN \/ \E size \in {0, 1} :
             LET q1 == [q EXCEPT !.dl = @ \cup {q.pc}]
                 step == IF q.pc = "dlBg" THEN "encMain" ELSE "extract"
             IN /\ Inject(Bit(size = 0))
                /\ fs' = WriteFile(fs, out, Content(size, r))
                /\ IF q.pc = "dlMain"
                   THEN /\ req' = [req EXCEPT ![r] = CookieLoop(q1, getCookieFiles, 1, "dlBg")]
                        /\ reused' = reused \cup (CookieLoopUses(getCookieFiles, 1) \cap revoked)
                   ELSE /\ req' = [req EXCEPT ![r] =
                                     [q1 EXCEPT !.pc = step, !.ran = @ \cup {step}]]
                        /\ reused' = reused
                /\ evicted' = evicted \cup q.rej
                /\ UNCHANGED <<cookies, revoked>>
        \/ \E kind \in ExecErrorKinds, stderr \in StderrKinds :
             CookieExecFails(r, kind, stderr)
  /\ UNCHANGED <<now, fixedVars>>

\* The exec of an ffmpeg command ends.  ffmpeg fails on a missing or empty
\* input; its output holds the data of its input.
CookieFfmpegExit(r) ==
  /\ server = "cookie"
  /\ req[r].pc \in {"encMain", "encBg", "extract"}
  /\ LET q == req[r]
         in == IF q.pc = "encBg" THEN BackgroundSegmentPath(q) ELSE MainSegmentPath(q)
         out == CASE q.pc = "encMain" -> MainReencodedPath(q)
                  [] q.pc = "encBg" -> BackgroundReencodedPath(q)
                  [] OTHER -> AudioOutputPath(q)
         step == CASE q.pc = "encMain" -> "encBg"
                   [] q.pc = "encBg" -> "copyMain"
                   [] OTHER -> "send"
     IN \/ /\ Exists(fs, in)
           /\ ~IsEmptyFile(fs, in)
           /\ \E size \in {0, 1} :
                /\ Inject(Bit(size = 0))
                /\ fs' = WriteFile(fs, out, Content(size, fs[in].by))
           /\ req' = [req EXCEPT ![r] = [q EXCEPT !.pc = step, !.ran = @ \cup {step}]]
        \/ /\ \E leaves \in BOOLEAN :
                /\ Inject(Bit(leaves))
                /\ fs' = IF leaves THEN WriteFile(fs, out, Content(0, r)) ELSE fs
           /\ req' = [req EXCEPT ![r] = CookieCatch(q, "ffmpeg")]
  /\ UNCHANGED <<now, cookieVars, fixedVars>>

\* fs.copyFile to the public folder ends.
CookieCopyDone(r) ==
  /\ server = "cookie"
  /\ req[r].pc \in {"copyMain", "copyBg"}
  /\ LET q == req[r]
         src == IF q.pc = "copyMain" THEN MainReencodedPath(q) ELSE BackgroundReencodedPath(q)
         dst == IF q.pc = "copyMain" THEN PublicMainPath(q) ELSE PublicBackgroundPath(q)
         step == IF q.pc = "copyMain" THEN "copyBg" ELSE "cleanup"
     IN \/ /\ Exists(fs, src)
           /\ fs' = WriteFile(fs, dst, fs[src])
           /\ req' = [req EXCEPT ![r] = [q EXCEPT !.pc = step, !.ran = @ \cup {step}]]
           /\ UNCHANGED faults
        \/ /\ Inject(Bit(Exists(fs, src)))
           /\ fs' = fs
           /\ req' = [req EXCEPT ![r] = CookieCatch(q, "copy")]
  /\ UNCHANGED <<now, cookieVars, fixedVars>>

\* The Promise.all of the four unlinks after publishing settles: the 200
\* response, or the catch block when an unlink failed.
CookieCleanupDone(r) ==
  /\ server = "cookie"
  /\ req[r].pc = "cleanup"
  /\ LET q == req[r]
         ps == CookieFailurePaths(q)
     IN \E failing \in UnlinkFailures(ps) :
          /\ Inject(Bit(failing # Missing(ps)))
          /\ fs' = RemoveFiles(fs, ps \ failing)
          /\ req' = [req EXCEPT ![r] =
                       IF failing = {}
                       THEN Done(Respond(q, 200, ""))
                       ELSE CookieCatch(q, "unlink")]
  /\ UNCHANGED <<now, cookieVars, fixedVars>>

\* The unlinks of the failure cleanup settle; each swallows its error.
CookieFailCleanupDone(r) ==
  /\ server = "cookie"
  /\ req[r].pc = "cleanupFail"
  /\ LET q == req[r]
         ps == CookieFailurePaths(q)
     IN \E failing \in UnlinkFailures(ps) :
          /\ Inject(Bit(failing # Missing(ps)))
          /\ fs' = RemoveFiles(fs, ps \ failing)
          /\ req' = [req EXCEPT ![r] = Done(q)]
  /\ UNCHANGED <<now, cookieVars, fixedVars>>

\* res.sendFile of /extract-audio calls back.  The file was sent; or the
\* transfer failed before anything was sent; or it failed after the
\* response had started, and res.status(500).json then throws inside the
\* callback.
CookieSendDone(r) ==
  /\ server = "cookie"
  /\ req[r].pc = "send"
  /\ LET q == req[r]
     IN \/ /\ Exists(fs, AudioOutputPath(q))
           /\ req' = [req EXCEPT ![r] =
                        [Respond(q, 200, "") EXCEPT !.pc = "sendCleanup",
                                                     !.ran = @ \cup {"sendCleanup"}]]
        \/ req' = [req EXCEPT ![r] = Done(Respond(q, 500, "send"))]
        \/ /\ Exists(fs, AudioOutputPath(q))
           /\ req' = [req EXCEPT ![r] =
                        [Done(Respond(Respond(q, 200, ""), 500, "send"))
                           EXCEPT !.unhandled = TRUE]]
  /\ UNCHANGED <<now, fs, cookieVars, fixedVars, faults>>

\* The Promise.all of the two unlinks in the sendFile callback settles; a
\* failed unlink rejects the callback's promise, which nothing handles.
CookieSendCleanupDone(r) ==
  /\ server = "cookie"
  /\ req[r].pc = "sendCleanup"
  /\ LET q == req[r]
         ps == {MainSegmentPath(q), AudioOutputPath(q)}
     IN \E failing \in UnlinkFailures(ps) :
          /\ Inject(Bit(failing # Missing(ps)))
          /\ fs' = RemoveFiles(fs, ps \ failing)
          /\ req' = [req EXCEPT ![r] =
                       [Done(q) EXCEPT !.unhandled = (failing # {})]]
  /\ UNCHANGED <<now, cookieVars, fixedVars>>

CookieNext ==
  \E r \in Reqs :
    \/ CookieReceive(r)
    \/ CookieYtDlpExit(r)
    \/ CookieFfmpegExit(r)
    \/ CookieCopyDone(r)
    \/ CookieCleanupDone(r)
    \/ CookieFailCleanupDone(r)
    \/ CookieSendDone(r)
    \/ CookieSendCleanupDone(r)

---------------------------------------------------------------------------
(* retryOperation and the proxy pool: src/server-segment-two.js            *)

DefaultMaxRetries == 3
DefaultInitialDelay == 2000
MaxAgents == 5
\* The direct calls of proxyPool.getAgent a behaviour makes at most.
MaxCalls == 7

\* (a + 1) % n in JavaScript: NaN when a is NaN or n is 0
IncMod(a, n) == IF a.nan \/ n = 0 THEN NaN ELSE Num((a.v + 1) % n)

\* proxyPool.currentIndex = (proxyPool.currentIndex + 1) % proxyPool.agents.length
RotateProxy(pool) == [pool EXCEPT !.currentIndex = IncMod(@, pool.agents)]

\* A retryOperation that gives up one attempt early.
RetryGivesUpEarly(attempt, maxRetries) ==
  IF attempt + 1 < maxRetries THEN "wait" ELSE "throw"

\* A retryOperation that also waits after its last attempt.
RetryWaitsAfterLast(attempt, maxRetries) ==
  IF attempt <= maxRetries THEN "wait" ELSE "throw"

\* A retryOperation that never gives up.
RetryNeverGivesUp(attempt, maxRetries) == "wait"

\* The catch block of retryOperation after the failure of attempt number
\* attempt: another attempt follows a wait, or the last error is thrown.
RetryAfterFailure(attempt, maxRetries) ==
  IF attempt < maxRetries THEN "wait" ELSE "throw"

RECURSIVE Pow2(_)
Pow2(n) == IF n = 0 THEN 1 ELSE 2 * Pow2(n - 1)

\* Math.random() in quarters: 0, 1/4, 2/4, 3/4.
RandomQuarters == 0..3

\* 4 * delay, for delay = initialDelay * Math.pow(2, attempt - 1) * (0.5 + Math.random())
Delay4(initialDelay, attempt, rnd) == initialDelay * Pow2(attempt - 1) * (2 + rnd)

\* A direct call retryOperation(operation, maxRetries), or
\* retryOperation(operation) with the default maxRetries = 3.  The operation
\* is given by its outcomes: script[k] is how its k-th invocation settles.
Outcome(ok, val) == [ok |-> ok, val |-> val]
Outcomes == {Outcome(ok, val) : ok \in BOOLEAN, val \in 1..2}

RetryCall ==
  /\ server = "retry"
  /\ rt.state = "idle"
  /\ \E omitted \in BOOLEAN, given \in 1..MaxRetriesArg :
       LET m == IF omitted THEN DefaultMaxRetries ELSE given
       IN /\ omitted => given = 1
          /\ \E script \in [1..m -> Outcomes] :
               rt' = [state |-> "running", maxRetries |-> m, script |-> script,
                      attempt |-> 1, calls |-> 1, result |-> 0, lastError |-> 0,
                      delay4 |-> 0, waits |-> 0, defaulted |-> omitted]
  /\ UNCHANGED <<server, now, fs, cookies, req, revoked, reused, evicted,
                 proxyPool, inputs, faults, call>>

\* The promise of the running invocation settles.
RetrySettle ==
  /\ server = "retry"
  /\ rt.state = "running"
  /\ LET o == rt.script[rt.attempt]
     IN IF o.ok
        THEN rt' = [rt EXCEPT !.state = "resolved", !.result = o.val]
        ELSE IF RetryAfterFailure(rt.attempt, rt.maxRetries) = "wait"
             THEN \E rnd \in RandomQuarters :
                    rt' = [rt EXCEPT !.state = "waiting", !.lastError = o.val,
                                     !.waits = @ + 1,
                                     !.delay4 = Delay4(DefaultInitialDelay, rt.attempt, rnd)]
             ELSE rt' = [rt EXCEPT !.state = "rejected", !.lastError = o.val]
  /\ UNCHANGED <<server, now, fs, cookies, req, revoked, reused, evicted,
                 proxyPool, inputs, faults, call>>

\* The timer of the wait fires: the proxy is rotated and the loop goes on.
RetryWake ==
  /\ server = "retry"
  /\ rt.state = "waiting"
  /\ proxyPool' = RotateProxy(proxyPool)
  /\ rt' = [rt EXCEPT !.state = "running", !.attempt = @ + 1, !.calls = @ + 1]
  /\ UNCHANGED <<server, now, fs, cookies, req, revoked, reused, evicted,
                 inputs, faults, call>>

RetryNext == RetryCall \/ RetrySettle \/ RetryWake

\* if (this.agents.length < this.maxAgents) this.agents.push({..., uses: 0})
PushAgent(pool) ==
  IF pool.agents < MaxAgents
  THEN [pool EXCEPT !.agents = @ + 1, !.uses = Append(@, 0)]
  ELSE pool

\* A direct call of proxyPool.getAgent().  agents[currentIndex] is undefined
\* when currentIndex is NaN or no index of agents: agentData.uses++ then
\* throws a TypeError, after the push.  Otherwise the entry is used, the
\* index advances, and the entry is refreshed when it was used more than 50
\* times or is older than ten minutes (old).
GetAgent ==
  /\ server = "retry"
  /\ proxyPool.calls < MaxCalls
  /\ \E old \in BOOLEAN :
       LET pushed == [PushAgent(proxyPool) EXCEPT !.calls = @ + 1]
           i == pushed.currentIndex
       IN IF i.nan \/ i.v \notin 0..(pushed.agents - 1)
          THEN /\ ~old
               /\ proxyPool' = [pushed EXCEPT !.badRead = TRUE]
          ELSE LET u == pushed.uses[i.v + 1] + 1
               IN proxyPool' =
                    [pushed EXCEPT !.uses[i.v + 1] = IF u > 50 \/ old THEN 0 ELSE u,
                                   !.currentIndex = IncMod(i, pushed.agents)]
  /\ UNCHANGED <<server, now, fs, cookies, req, revoked, reused, evicted,
                 rt, inputs, faults, call>>

PoolNext == RetryNext \/ GetAgent

---------------------------------------------------------------------------
(* server "proxy": src/server-segment-two.js                               *)

MainVideoPath(q) == Path("downloads", "main-video", q.ts)
MainAudioPath(q) == Path("downloads", "main-audio", q.ts)
TempAudioPath(q) == Path("downloads", "temp-audio", q.ts)
NoPath == Path("none", "none", 0)

\* validateVideoId: a string of 11 characters of the id alphabet
validateVideoId(src) == src = "id"

\* The validation of POST /get-video-urls.
ProxyVideoUrlsInvalid(q) ==
  \/ ~validateVideoId(q.body.main)
  \/ ~validateVideoId(q.body.bg)
  \/ IsNaN(Start(q))
  \/ IsNaN(End(q))
  \/ NumGE(Start(q), End(q))

\* The validation of POST /extract-audio, and the video id it needs: the
\* field itself or the id matched in a URL.
ProxyExtractAudioInvalid(q) ==
  \/ Falsy(q.body.main)
  \/ IsNaN(Start(q))
  \/ IsNaN(End(q))
  \/ NumGE(Start(q), End(q))
  \/ q.body.main \notin {"id", "url"}

\* A run of unlinkSync calls in one try block, in the order of ps: the first
\* call that throws ends the block.  With guarded (fs.existsSync first) a
\* missing file is skipped; the call on failAt throws though the file exists.
RECURSIVE UnlinkEach(_, _, _, _)
UnlinkEach(f, ps, failAt, guarded) ==
  IF ps = << >> THEN f
  ELSE IF ~Exists(f, Head(ps))
       THEN IF guarded THEN UnlinkEach(f, Tail(ps), failAt, guarded) ELSE f
       ELSE IF Head(ps) = failAt THEN f
            ELSE UnlinkEach(RemoveFile(f, Head(ps)), Tail(ps), failAt, guarded)

\* Whether such a run ends by a throw.
RECURSIVE UnlinkThrows(_, _, _, _)
UnlinkThrows(f, ps, failAt, guarded) ==
  IF ps = << >> THEN FALSE
  ELSE IF ~Exists(f, Head(ps))
       THEN IF guarded THEN UnlinkThrows(f, Tail(ps), failAt, guarded) ELSE TRUE
       ELSE IF Head(ps) = failAt THEN TRUE
            ELSE UnlinkThrows(f, Tail(ps), failAt, guarded)

\* The paths of the cleanups, in the order of the code.
ProxyCleanupPaths(q) ==
  IF q.ep = "gv"
  THEN <<MainSegmentPath(q), BackgroundSegmentPath(q),
         MainReencodedPath(q), BackgroundReencodedPath(q)>>
  ELSE <<TempAudioPath(q), AudioOutputPath(q)>>

\* A step's result: the handler's locals and the files after it.
Result(q, f) == [q |-> q, fs |-> f]

\* A catch that answers 500 and lets the handler go on.
ProxyCatchGoesOn(q, f, err, failAt) ==
  Result(Respond(q, 500, err), UnlinkEach(f, ProxyCleanupPaths(q), failAt, TRUE))

\* catch (error) of a handler: the 500 response, then the cleanup on failure
\* in its own try block.
ProxyCatch(q, f, err, failAt) ==
  Result(Done(Respond(q, 500, err)),
         UnlinkEach(f, ProxyCleanupPaths(q), failAt, TRUE))

\* A retried operation whose every failure is answered with a 500 at once.
ProxyThrowAnswers(q, f, err, failAt) ==
  IF RetryAfterFailure(q.attempt, DefaultMaxRetries) = "wait"
  THEN Result([Respond(q, 500, err) EXCEPT !.pc = "backoffMain"], f)
  ELSE ProxyCatch(q, f, err, failAt)

\* A retryOperation that resolves, instead of throwing lastError, when the
\* attempts of the main download are used up.
ProxyThrowResolves(q, f, err, failAt) ==
  CASE RetryAfterFailure(q.attempt, DefaultMaxRetries) = "wait" ->
         Result([q EXCEPT !.pc = CASE q.ep = "ea" -> "backoffAudio"
                                   [] q.pc = "dlBg" -> "backoffBg"
                                   [] OTHER -> "backoffMain"], f)
    [] q.ep = "gv" /\ q.pc # "dlBg" ->
         Result([q EXCEPT !.pc = "dlBg", !.attempt = 1, !.ran = @ \cup {"dlBg"}], f)
    [] OTHER ->
         Result(Done(Respond(q, 500, err)),
                UnlinkEach(f, ProxyCleanupPaths(q), failAt, TRUE))

\* The operation given to retryOperation throws in attempt q.attempt.
ProxyThrow(q, f, err, failAt) ==
  IF RetryAfterFailure(q.attempt, DefaultMaxRetries) = "wait"
  THEN Result([q EXCEPT !.pc = CASE q.ep = "ea" -> "backoffAudio"
                                 [] q.pc = "dlBg" -> "backoffBg"
                                 [] OTHER -> "backoffMain"], f)
  ELSE ProxyCatch(q, f, err, failAt)

\* The handler moves on to its next awaited step.
Goto(q, step) == [q EXCEPT !.pc = step, !.ran = @ \cup {step}]

\* The unlinkSync calls a fault can be drawn for.
ProxyFaultPaths(q) ==
  {NoPath} \cup Range(ProxyCleanupPaths(q))
           \cup (IF q.ep = "gv" THEN {MainVideoPath(q), MainAudioPath(q)} ELSE {})

\* One run of the handler of request r up to its next await, with its
\* result when the unlinkSync of failAt throws and its result when none
\* does.  A fault the run does not come across is not drawn; n counts the
\* other faults of the step.
ProxyStep(r, result, unfaulted, failAt, n) ==
  /\ Inject(n + Bit(failAt # NoPath))
  /\ failAt = NoPath \/ result # unfaulted
  /\ req' = [req EXCEPT ![r] = result.q]
  /\ fs' = result.fs

ProxyReceive(r) ==
  /\ server = "proxy"
  /\ MayArrive(r)
  /\ \E ep \in {"gv", "ea"}, main \in SourceValues, bg \in SourceValues,
        ss \in StartValues, es \in EndValues :
       /\ ep = "ea" => bg = main
       /\ LET q0 == [req[r] EXCEPT !.ep = ep, !.body = Body(main, bg, ss, es)]
              invalid == IF ep = "gv" THEN ProxyVideoUrlsInvalid(q0)
                         ELSE ProxyExtractAudioInvalid(q0)
          IN IF invalid
             THEN /\ req' = [req EXCEPT ![r] = Done(Respond(q0, 400, "invalid"))]
                  /\ now' = now
             ELSE \E t \in DateNow :
                    /\ now' = t
                    /\ req' = [req EXCEPT ![r] =
                         Goto([q0 EXCEPT !.ts = t, !.attempt = 1],
                              IF ep = "gv" THEN "dlVideo" ELSE "dlTemp")]
  /\ UNCHANGED <<fs, cookieVars, fixedVars, faults>>

\* downloadVideoStream settles (the main video, or the background segment).
ProxyVideoDone(r) ==
  /\ server = "proxy"
  /\ req[r].pc \in {"dlVideo", "dlBg"}
  /\ LET q == req[r]
         out == IF q.pc = "dlVideo" THEN MainVideoPath(q) ELSE BackgroundSegmentPath(q)
     IN \/ \E size \in {0, 1}, failAt \in ProxyFaultPaths(q) :
             LET f1 == WriteFile(fs, out, Content(size, r))
                 res(fa) ==
                   CASE q.pc = "dlVideo" -> Result(Goto(q, "dlAudio"), f1)
                     [] q.pc = "dlBg" /\ IsEmptyFile(f1, out) -> ProxyThrow(q, f1, "empty", fa)
                     [] OTHER -> Result(Goto([q EXCEPT !.dl = @ \cup {"dlBg"}, !.attempt = 0],
                                             "encMain"), f1)
             IN ProxyStep(r, res(failAt), res(NoPath), failAt, Bit(size = 0))
        \/ \E leaves \in BOOLEAN, failAt \in ProxyFaultPaths(q) :
             LET f1 == IF leaves THEN WriteFile(fs, out, Content(0, r)) ELSE fs
                 res(fa) == ProxyThrow(q, f1, "stream", fa)
             IN ProxyStep(r, res(failAt), res(NoPath), failAt, 0)
  /\ UNCHANGED <<now, cookieVars, fixedVars>>

\* downloadAudioStream settles (the main audio, or the audio of
\* /extract-audio); on success the size checks follow and ffmpeg starts.
ProxyAudioDone(r) ==
  /\ server = "proxy"
  /\ req[r].pc \in {"dlAudio", "dlTemp"}
  /\ LET q == req[r]
         out == IF q.pc = "dlAudio" THEN MainAudioPath(q) ELSE TempAudioPath(q)
         checked == IF q.pc = "dlAudio" THEN <<MainVideoPath(q), out>> ELSE <<out>>
     IN \/ \E size \in {0, 1}, failAt \in ProxyFaultPaths(q) :
             LET f1 == WriteFile(fs, out, Content(size, r))
                 res(fa) ==
                   CASE \E i \in 1..Len(checked) : ~Exists(f1, checked[i]) ->
                          ProxyThrow(q, f1, "stat", fa)
                     [] \E i \in 1..Len(checked) : IsEmptyFile(f1, checked[i]) ->
                          ProxyThrow(q, f1, "empty", fa)
                     [] OTHER ->
                          Result(Goto(q, IF q.pc = "dlAudio" THEN "merge" ELSE "trim"), f1)
             IN ProxyStep(r, res(failAt), res(NoPath), failAt, Bit(size = 0))
        \/ \E leaves \in BOOLEAN, failAt \in ProxyFaultPaths(q) :
             LET f1 == IF leaves THEN WriteFile(fs, out, Content(0, r)) ELSE fs
                 res(fa) == ProxyThrow(q, f1, "stream", fa)
             IN ProxyStep(r, res(failAt), res(NoPath), failAt, 0)
  /\ UNCHANGED <<now, cookieVars, fixedVars>>

\* The ffmpeg run inside a retried operation settles: the merge of the main
\* video and audio, or the trim of /extract-audio.  On success its inputs are
\* unlinked and the size of its output is checked.
ProxyMergeDone(r) ==
  /\ server = "proxy"
  /\ req[r].pc \in {"merge", "trim"}
  /\ LET q == req[r]
         ins == IF q.pc = "merge" THEN <<MainVideoPath(q), MainAudioPath(q)>>
                ELSE <<TempAudioPath(q)>>
         out == IF q.pc = "merge" THEN MainSegmentPath(q) ELSE AudioOutputPath(q)
     IN \/ /\ \A i \in 1..Len(ins) : Exists(fs, ins[i]) /\ ~IsEmptyFile(fs, ins[i])
           /\ \E size \in {0, 1}, failAt \in ProxyFaultPaths(q) :
                LET f1 == WriteFile(fs, out, Content(size, fs[ins[1]].by))
                    res(fa) ==
                      LET f2 == UnlinkEach(f1, ins, fa, FALSE)
                      IN CASE UnlinkThrows(f1, ins, fa, FALSE) -> ProxyThrow(q, f2, "unlink", fa)
                           [] IsEmptyFile(f2, out) -> ProxyThrow(q, f2, "empty", fa)
                           [] q.pc = "merge" ->
                                Result(Goto([q EXCEPT !.dl = @ \cup {"dlMain"}, !.attempt = 1],
                                            "dlBg"), f2)
                           [] OTHER ->
                                Result(Goto([q EXCEPT !.dl = @ \cup {"dlAudio"}, !.attempt = 0],
                                            "send"), f2)
                IN ProxyStep(r, res(failAt), res(NoPath), failAt, Bit(size = 0))
        \/ \E leaves \in BOOLEAN, failAt \in ProxyFaultPaths(q) :
             LET f1 == IF leaves THEN WriteFile(fs, out, Content(0, r)) ELSE fs
                 res(fa) == ProxyThrow(q, f1, "ffmpeg", fa)
             IN ProxyStep(r, res(failAt), res(NoPath), failAt, 0)
  /\ UNCHANGED <<now, cookieVars, fixedVars>>

\* The delay of retryOperation ends: the proxy is rotated and the operation
\* is invoked again.
ProxyBackoffDone(r) ==
  /\ server = "proxy"
  /\ req[r].pc \in {"backoffMain", "backoffBg", "backoffAudio"}
  /\ LET q == req[r]
     IN req' = [req EXCEPT ![r] =
          Goto([q EXCEPT !.attempt = q.attempt + 1],
               CASE q.pc = "backoffMain" -> "dlVideo"
                 [] q.pc = "backoffBg" -> "dlBg"
                 [] OTHER -> "dlTemp")]
  /\ proxyPool' = RotateProxy(proxyPool)
  /\ UNCHANGED <<server, inputs, rt, call, now, fs, cookieVars, faults>>

\* A re-encode settles.  After that of the background segment the handler
\* runs to its end: both copies, the cleanup, the response.
ProxyEncodeDone(r) ==
  /\ server = "proxy"
  /\ req[r].pc \in {"encMain", "encBg"}
  /\ LET q == req[r]
         in == IF q.pc = "encMain" THEN MainSegmentPath(q) ELSE BackgroundSegmentPath(q)
         out == IF q.pc = "encMain" THEN MainReencodedPath(q) ELSE BackgroundReencodedPath(q)
     IN \/ /\ Exists(fs, in) /\ ~IsEmptyFile(fs, in)
           /\ \E size \in {0, 1}, copyFails \in 0..2, failAt \in ProxyFaultPaths(q) :
                LET f1 == WriteFile(fs, out, Content(size, fs[in].by))
                    f2 == WriteFile(f1, PublicMainPath(q), f1[MainReencodedPath(q)])
                    f3 == WriteFile(f2, PublicBackgroundPath(q), f2[BackgroundReencodedPath(q)])
                    started(steps) == [q EXCEPT !.ran = @ \cup steps]
                    res(fa) ==
                      CASE q.pc = "encMain" -> Result(Goto(q, "encBg"), f1)
                        [] ~Exists(f1, MainReencodedPath(q)) \/ copyFails = 1 ->
                             ProxyCatch(started({"copyMain"}), f1, "copy", fa)
                        [] copyFails = 2 ->
                             ProxyCatch(started({"copyMain", "copyBg"}), f2, "copy", fa)
                        [] OTHER ->
                             Result(Done(Respond(started({"copyMain", "copyBg", "cleanup"}),
                                                 200, "")),
                                    UnlinkEach(f3, ProxyCleanupPaths(q), fa, FALSE))
                IN /\ copyFails # 0 => q.pc = "encBg"
                   /\ copyFails = 1 => Exists(f1, MainReencodedPath(q))
                   /\ ProxyStep(r, res(failAt), res(NoPath), failAt, Bit(size = 0) + Bit(copyFails # 0))
        \/ \E leaves \in BOOLEAN, failAt \in ProxyFaultPaths(q) :
             LET f1 == IF leaves THEN WriteFile(fs, out, Content(0, r)) ELSE fs
                 res(fa) == ProxyCatch(q, f1, "ffmpeg", fa)
             IN ProxyStep(r, res(failAt), res(NoPath), failAt, 0)
  /\ UNCHANGED <<now, cookieVars, fixedVars>>

\* The callback of res.sendFile of /extract-audio.
ProxySendDone(r) ==
  /\ server = "proxy"
  /\ req[r].pc = "send"
  /\ LET q == req[r]
     IN \/ \E failAt \in {NoPath, AudioOutputPath(q)} :
             LET res(fa) == Result(Done(Respond(q, 200, "")),
                                   UnlinkEach(fs, <<AudioOutputPath(q)>>, fa, FALSE))
             IN ProxyStep(r, res(failAt), res(NoPath), failAt, 0)
        \/ /\ req' = [req EXCEPT ![r] = Done(Respond(q, 500, "send"))]
           /\ UNCHANGED <<fs, faults>>
        \/ /\ req' = [req EXCEPT ![r] =
                        [Done(Respond(Respond(q, 200, ""), 500, "send"))
                           EXCEPT !.unhandled = TRUE]]
           /\ UNCHANGED <<fs, faults>>
  /\ UNCHANGED <<now, cookieVars, fixedVars>>

ProxyNext ==
  \E r \in Reqs :
    \/ ProxyReceive(r)
    \/ ProxyVideoDone(r)
    \/ ProxyAudioDone(r)
    \/ ProxyMergeDone(r)
    \/ ProxyBackoffDone(r)
    \/ ProxyEncodeDone(r)
    \/ ProxySendDone(r)

---------------------------------------------------------------------------
(* The POST /combine-two servers.  "combine" is src/server.js; "combine0"  *)
(* is src/unnamed/part_000, "combine2a" the async handler of               *)
(* src/unnamed/part_002 (lines 1-106), "combine2b" its callback handler    *)
(* (lines 108-212), "combine3" src/unnamed/part_003.                       *)

CombineServers == {"combine", "combine0", "combine2a", "combine2b", "combine3"}

CombineMainSegmentPath(q) == Path("downloads", "mainSegment", q.ts)
CombineBackgroundSegmentPath(q) == Path("downloads", "backgroundSegment", q.ts)
OutputFilePath(q) == Path("downloads", "combined", q.ts)
CombinePaths(q) ==
  {CombineMainSegmentPath(q), CombineBackgroundSegmentPath(q), OutputFilePath(q)}

\* The validation of POST /combine-two: part_000 and the async handler of
\* part_002 parse the times and compare them, the others only ask for the
\* presence of the fields.
CombineInvalid(q) ==
  \/ Falsy(q.body.main)
  \/ Falsy(q.body.bg)
  \/ IF server \in {"combine0", "combine2a"}
     THEN IsNaN(Start(q)) \/ IsNaN(End(q)) \/ NumGE(Start(q), End(q))
     ELSE q.body.ss = JUndef \/ q.body.es = JUndef

\* The files a handler unlinks when a step has failed: the catch block of
\* the async handler unlinks all three; the ffmpeg callback of the others
\* unlinks the two segments, and their download callbacks unlink nothing.
CombineFailureUnlinks(q) ==
  CASE server = "combine2a" -> CombinePaths(q)
    [] q.pc = "combine" ->
         {CombineMainSegmentPath(q), CombineBackgroundSegmentPath(q)}
    [] OTHER -> {}

\* The files the ffmpeg callback unlinks when ffmpeg succeeded.
CombineSuccessUnlinks(q) ==
  IF server = "combine2a" THEN {}
  ELSE {CombineMainSegmentPath(q), CombineBackgroundSegmentPath(q)}

\* The files the sendFile callback unlinks when the file was sent.
CombineSentUnlinks(q) ==
  CASE server = "combine2a" -> CombinePaths(q)
    [] server \in {"combine0", "combine2b"} -> {OutputFilePath(q)}
    [] OTHER -> {}

\* The unlinks of ps that can fail although the file is there: none, or one.
CombineKept(f, ps) == {NoPath} \cup {p \in ps : Exists(f, p)}

\* A handler that starts ffmpeg from the callback of the first download.
CombineSkipsBackground(pc) == "combine"

\* What the callback of a download that succeeded starts: the background
\* download after the main one, ffmpeg after the background one.
CombineAfterDownload(pc) == IF pc = "dlMain" THEN "dlBg" ELSE "combine"

\* What follows ffmpeg: server.js waits 3000 ms and looks for the file, the
\* others call res.sendFile at once.
CombineAfterFfmpeg == IF server = "combine" THEN "delay" ELSE "send"

CombineReceive(r) ==
  /\ server \in CombineServers
  /\ MayArrive(r)
  /\ \E main \in SourceValues, bg \in SourceValues,
        ss \in StartValues, es \in EndValues :
       LET q0 == [req[r] EXCEPT !.ep = "c2", !.body = Body(main, bg, ss, es)]
       IN IF CombineInvalid(q0)
          THEN /\ req' = [req EXCEPT ![r] = Done(Respond(q0, 400, "invalid"))]
               /\ now' = now
          ELSE \E t \in DateNow :
                 /\ now' = t
                 /\ req' = [req EXCEPT ![r] = Goto([q0 EXCEPT !.ts = t], "dlMain")]
  /\ UNCHANGED <<fs, cookieVars, fixedVars, faults>>

\* The callback of exec(mainCommand) or exec(backgroundCommand).
CombineYtDlpExit(r) ==
  /\ server \in CombineServers
  /\ req[r].pc \in {"dlMain", "dlBg"}
  /\ LET q == req[r]
         out == IF q.pc = "dlMain" THEN CombineMainSegmentPath(q)
                ELSE CombineBackgroundSegmentPath(q)
     IN \/ \E size \in {0, 1} :
             /\ Inject(Bit(size = 0))
             /\ fs' = WriteFile(fs, out, Content(size, r))
             /\ req' = [req EXCEPT ![r] =
                  Goto([q EXCEPT !.dl = @ \cup {q.pc}], CombineAfterDownload(q.pc))]
        \/ \E leaves \in BOOLEAN :
             LET f1 == IF leaves THEN WriteFile(fs, out, Content(0, r)) ELSE fs
             IN \E kept \in CombineKept(f1, CombineFailureUnlinks(q)) :
                  /\ Inject(Bit(leaves) + Bit(kept # NoPath))
                  /\ fs' = RemoveFiles(f1, CombineFailureUnlinks(q) \ {kept})
                  /\ req' = [req EXCEPT ![r] = Done(Respond(q, 500, "exit"))]
  /\ UNCHANGED <<now, cookieVars, fixedVars>>

\* The callback of exec(ffmpegCommand).  The callback handlers unlink both
\* segments, whatever the outcome; on success server.js arms its 3000 ms
\* timer and the others send the file.
CombineFfmpegExit(r) ==
  /\ server \in CombineServers
  /\ req[r].pc = "combine"
  /\ LET q == req[r]
         ins == {CombineMainSegmentPath(q), CombineBackgroundSegmentPath(q)}
     IN \/ /\ \A p \in ins : Exists(fs, p) /\ ~IsEmptyFile(fs, p)
           /\ \E size \in {0, 1} :
                LET f1 == WriteFile(fs, OutputFilePath(q),
                                    Content(size, fs[CombineMainSegmentPath(q)].by))
                IN \E kept \in CombineKept(f1, CombineSuccessUnlinks(q)) :
                     /\ Inject(Bit(size = 0) + Bit(kept # NoPath))
                     /\ fs' = RemoveFiles(f1, CombineSuccessUnlinks(q) \ {kept})
           /\ req' = [req EXCEPT ![r] = Goto(q, CombineAfterFfmpeg)]
        \/ \E leaves \in BOOLEAN :
             LET f1 == IF leaves THEN WriteFile(fs, OutputFilePath(q), Content(0, r))
                       ELSE fs
             IN \E kept \in CombineKept(f1, CombineFailureUnlinks(q)) :
                  /\ Inject(Bit(leaves) + Bit(kept # NoPath))
                  /\ fs' = RemoveFiles(f1, CombineFailureUnlinks(q) \ {kept})
                  /\ req' = [req EXCEPT ![r] = Done(Respond(q, 500, "ffmpeg"))]
  /\ UNCHANGED <<now, cookieVars, fixedVars>>

\* The callback of setTimeout(..., 3000) of server.js.
CombineTimeout(r) ==
  /\ server = "combine"
  /\ req[r].pc = "delay"
  /\ LET q == req[r]
     IN req' = [req EXCEPT ![r] =
          IF ~Exists(fs, OutputFilePath(q))
          THEN Done(Respond(q, 500, "notfound"))
          ELSE Goto(q, "send")]
  /\ UNCHANGED <<now, fs, cookieVars, fixedVars, faults>>

\* The callback of res.sendFile(outputFilePath): the file was sent (and
\* part_000 and part_002 unlink what is left), or it could not be sent and a
\* 500 is answered, before or after a part of the file went out.
CombineSendDone(r) ==
  /\ server \in CombineServers
  /\ req[r].pc = "send"
  /\ LET q == req[r]
     IN \/ \E kept \in CombineKept(fs, CombineSentUnlinks(q)) :
             /\ Inject(Bit(kept # NoPath))
             /\ fs' = RemoveFiles(fs, CombineSentUnlinks(q) \ {kept})
             /\ req' = [req EXCEPT ![r] = Done(Respond(q, 200, ""))]
        \/ /\ req' = [req EXCEPT ![r] = Done(Respond(q, 500, "send"))]
           /\ UNCHANGED <<fs, faults>>
        \/ /\ req' = [req EXCEPT ![r] =
                        [Done(Respond(Respond(q, 200, ""), 500, "send"))
                           EXCEPT !.unhandled = TRUE]]
           /\ UNCHANGED <<fs, faults>>
  /\ UNCHANGED <<now, cookieVars, fixedVars>>

\* The socket of a request to the callback handler of part_002 has been
\* idle for the 300000 ms of req.setTimeout: no 'timeout' listener is set,
\* so the http server destroys the socket.  The handler and its child
\* process go on; what the handler answers later reaches nobody.
CombineSocketTimeout(r) ==
  /\ server = "combine2b"
  /\ req[r].pc \notin {"idle", "done", "send"}
  /\ req[r].resp = 0
  /\ ~req[r].closed
  /\ req' = [req EXCEPT ![r].closed = TRUE]
  /\ UNCHANGED <<now, fs, cookieVars, fixedVars, faults>>

CombineNext ==
  \E r \in Reqs :
    \/ CombineReceive(r)
    \/ CombineYtDlpExit(r)
    \/ CombineFfmpegExit(r)
    \/ CombineTimeout(r)
    \/ CombineSendDone(r)

\* The steps of the /combine-two servers, the request timeout of part_002
\* included.
CombineTwoNext == CombineNext \/ \E r \in Reqs : CombineSocketTimeout(r)

---------------------------------------------------------------------------
(* Specifications.                                                         *)

\* The direct call of retryOperation and the proxy pool before any call.
IdleRetry ==
  [state |-> "idle", maxRetries |-> 0, script |-> << >>, attempt |-> 0,
   calls |-> 0, result |-> 0, lastError |-> 0, delay4 |-> 0, waits |-> 0,
   defaulted |-> FALSE]
\* agents is agents.length and uses[i] the uses field of agents[i - 1].
\* ghost fields: calls (the getAgent calls made), badRead (a getAgent call
\* found no entry of agents at currentIndex).
EmptyPool ==
  [agents |-> 0, currentIndex |-> Num(0), uses |-> << >>, calls |-> 0,
   badRead |-> FALSE]

InitProcess(sv, mode, cs) ==
  /\ server = sv
  /\ inputs = mode
  /\ now = 0
  /\ fs = NoFiles
  /\ cookies = cs
  /\ req = [r \in Reqs |-> IdleReq]
  /\ revoked = {}
  /\ reused = {}
  /\ evicted = {}
  /\ proxyPool = EmptyPool
  /\ rt = IdleRetry
  /\ faults = 0

\* No call of isCookieError is under way.
IdleCall == [state |-> "none", message |-> << >>, stderr |-> JUndef, result |-> FALSE]

\* The process after start-up: no request, no file, the given cookies.
InitServer(sv, mode, cs) ==
  /\ call = IdleCall
  /\ InitProcess(sv, mode, cs)

\* The cookie server, started with its cookie files.
InitCookie == InitServer("cookie", "narrow", Cookies)

SpecCookie == InitCookie /\ [][CookieNext]_vars

\* Direct calls of retryOperation.
InitRetry == InitServer("retry", "narrow", {})

SpecRetry == InitRetry /\ [][RetryNext]_vars

\* Direct calls of proxyPool.getAgent, with a retryOperation call under way.
SpecPool == InitRetry /\ [][PoolNext]_vars

InitProxy == InitServer("proxy", "narrow", {})
SpecProxy == InitProxy /\ [][ProxyNext]_vars

InitCombine == InitServer("combine", "narrow", {})
SpecCombine == InitCombine /\ [][CombineNext]_vars

\* Any of the POST /combine-two servers, with overlapping requests.
InitCombineTwo == \E sv \in CombineServers : InitServer(sv, "narrow", {})
SpecCombineTwo == InitCombineTwo /\ [][CombineTwoNext]_vars

\* Requests with bodies of every shape, one per behaviour, to either server
\* with the endpoints /get-video-urls and /extract-audio.
InitInputs ==
  \E sv \in {"cookie", "proxy"} :
    InitServer(sv, "wide", IF sv = "cookie" THEN Cookies ELSE {})
NextInputs == CookieNext \/ ProxyNext
SpecInputs == InitInputs /\ [][NextInputs]_vars

\* The steps of the handler of request r that follow the end of something the
\* handler waits for: the exit of a child process, the end of a stream, a
\* timer, the callback of res.sendFile.
HandlerStep(r) ==
  \/ CookieYtDlpExit(r) \/ CookieFfmpegExit(r) \/ CookieCopyDone(r)
  \/ CookieCleanupDone(r) \/ CookieFailCleanupDone(r)
  \/ CookieSendDone(r) \/ CookieSendCleanupDone(r)
  \/ ProxyVideoDone(r) \/ ProxyAudioDone(r) \/ ProxyMergeDone(r)
  \/ ProxyBackoffDone(r) \/ ProxyEncodeDone(r) \/ ProxySendDone(r)

\* Overlapping requests to part_001, or one request to server-segment-two.js,
\* every external process, stream and timer a handler waits for finishing at
\* some time: the event loop then runs the callback or resumes the handler.
InitLive ==
  \/ InitServer("cookie", "narrow", Cookies)
  \/ InitServer("proxy", "solo", {})
SpecLive ==
  InitLive /\ [][NextInputs]_vars /\ \A r \in Reqs : WF_vars(HandlerStep(r))

\* The steps of a handler that wait for the exit of a child process (exec of
\* yt-dlp or ffmpeg, fluent-ffmpeg) or for the end of a ytdl stream.
ProcessSteps ==
  {"dlMain", "dlBg", "dlAudio", "dlVideo", "dlTemp", "merge", "trim",
   "encMain", "encBg", "extract", "combine"}

\* The process or stream a handler waits for never finishes: no exec is
\* given a timeout and no stream a deadline, so its callback is never
\* called and its promise never settles.
Hang(r) ==
  /\ req[r].pc \in ProcessSteps
  /\ req' = [req EXCEPT ![r].pc = "hung"]
  /\ UNCHANGED <<now, fs, cookieVars, fixedVars, faults>>

\* One request to any of the servers, whose processes may hang.
InitHang ==
  \E sv \in {"cookie", "proxy"} \cup CombineServers :
    InitServer(sv, "solo", IF sv = "cookie" THEN Cookies ELSE {})
NextHang ==
  CookieNext \/ ProxyNext \/ CombineTwoNext \/ \E r \in Reqs : Hang(r)
SpecHang == InitHang /\ [][NextHang]_vars

\* Pieces of text the arguments of a direct call of isCookieError are put
\* together from: parts of the indicators in either case, and other text.
TextPieces ==
  {<< >>, <<"C","o","o","k">>, <<"I","E","s"," ">>,
   <<"C","e","r","t","i","f","i","c","a","t","e">>,
   <<"4","0">>, <<"3",":"," ">>, <<"F","O","R","B","I","D","D","E","N">>,
   <<"t","i","m","e","d"," ","o","u","t">>}
MaxPieces == 2
RECURSIVE Texts(_)
Texts(n) ==
  IF n = 0 THEN {<< >>}
  ELSE {a \o b : a \in TextPieces, b \in Texts(n - 1)}

\* isCookieError(err, stderr) is called with err.message and stderr drawn
\* from these texts, stderr possibly undefined.
InitIsCookie ==
  /\ InitProcess("text", "solo", {})
  /\ \E m \in Texts(MaxPieces), e \in {JUndef} \cup {JStr(t) : t \in TextPieces} :
       call = [state |-> "called", message |-> m, stderr |-> e, result |-> FALSE]

\* The call returns: stderr || '' is the text of stderr, or '' for undefined.
IsCookieErrorReturn ==
  /\ server = "text"
  /\ call.state = "called"
  /\ call' = [call EXCEPT !.state = "returned",
                          !.result = isCookieError(call.message, call.stderr.s)]
  /\ UNCHANGED <<server, now, fs, cookies, req, revoked, reused, evicted,
                 proxyPool, rt, inputs, faults>>

SpecIsCookie == InitIsCookie /\ [][IsCookieErrorReturn]_vars

\* Any of the servers, with overlapping requests.
Servers == {"cookie", "proxy", "combine"}
Init ==
  \E sv \in Servers :
    InitServer(sv, "narrow", IF sv = "cookie" THEN Cookies ELSE {})
Next == CookieNext \/ ProxyNext \/ CombineNext
Spec == Init /\ [][Next]_vars

\* Every path a request's handler reads, writes or unlinks.
RequestPaths(q) ==
  CASE q.ts = 0 -> {}
    [] server = "cookie" /\ q.ep = "gv" ->
         CookieFailurePaths(q) \cup {PublicMainPath(q), PublicBackgroundPath(q)}
    [] server = "cookie" -> CookieFailurePaths(q)
    [] server = "proxy" /\ q.ep = "gv" ->
         Range(ProxyCleanupPaths(q)) \cup
           {MainVideoPath(q), MainAudioPath(q), PublicMainPath(q), PublicBackgroundPath(q)}
    [] server = "proxy" -> Range(ProxyCleanupPaths(q))
    [] OTHER -> {CombineMainSegmentPath(q), CombineBackgroundSegmentPath(q),
                 OutputFilePath(q)}

\* The handler of the request has started and not yet returned for good.
InFlight(q) == q.pc \notin {"idle", "done"}

\* The phase of a request that passed validation, from the place of its
\* handler: 1 Downloading, 2 Composing, 3 Publishing, 4 Completed (the 200
\* is sent), 5 Failed (a 500 is sent); 0 before it arrives and when it was
\* rejected with a 400.
Phase(q) ==
  CASE q.resp = 500 -> 5
    [] q.resp = 200 -> 4
    [] q.pc \in {"copyMain", "copyBg", "cleanup", "delay", "send"} -> 3
    [] q.pc \in {"encMain", "encBg", "extract", "trim", "combine"} -> 2
    [] q.ts = 0 -> 0
    [] OTHER -> 1

---------------------------------------------------------------------------
(* Properties.                                                             *)

\* C1: after a POST /get-video-urls of server-segment-two.js has ended with
\* a 500, no file of downloads/ that this request created remains.
C1_FailureLeavesNoIntermediate ==
  \A r \in Reqs :
    (server = "proxy" /\ req[r].ep = "gv" /\ req[r].resp = 500 /\ req[r].pc = "done") =>
      \A p \in DOMAIN fs :
        ~(p[1] = "downloads" /\ p \in RequestPaths(req[r]) /\ fs[p].by = r)

\* C2: the cookies a successful runWithRotatingCookies call had rejected
\* before the cookie that succeeded are deleted, and none of them is passed
\* to a command again.
C2_EvictedNeverAgain ==
  server = "cookie" => evicted \cap (cookies \cup reused) = {}

\* The number of the first invocation of the scripted operation that
\* succeeds, 0 when none does.
FirstSuccess(script) ==
  IF \E k \in DOMAIN script : script[k].ok
  THEN CHOOSE k \in DOMAIN script :
         script[k].ok /\ \A j \in 1..(k - 1) : ~script[j].ok
  ELSE 0

\* C3: when the operation given to retryOperation first succeeds on attempt
\* k <= maxRetries, the call is never rejected, the operation is never
\* invoked more than k times, and once the call has resolved the operation
\* has been invoked exactly k times and the value is that of attempt k.
C3_RetryFirstSuccess ==
  (server = "retry" /\ rt.state # "idle" /\ FirstSuccess(rt.script) > 0) =>
    LET k == FirstSuccess(rt.script)
    IN /\ rt.state # "rejected"
       /\ rt.calls <= k
       /\ rt.state = "resolved" => rt.calls = k /\ rt.result = rt.script[k].val

\* C3: the call with maxRetries = 3 of an operation that fails twice and
\* then succeeds has resolved after three invocations.
C3_Witness ==
  /\ server = "retry"
  /\ rt.state = "resolved"
  /\ rt.maxRetries = 3
  /\ ~rt.script[1].ok /\ ~rt.script[2].ok /\ rt.script[3].ok
  /\ rt.calls = 3
  /\ rt.result = rt.script[3].val

C5_PublishedOutputs ==
  \A r \in Reqs :
    (req[r].ep = "gv" /\ req[r].resp = 200) =>
      \A p \in {PublicMainPath(req[r]), PublicBackgroundPath(req[r])} :
        Exists(fs, p) /\ ~IsEmptyFile(fs, p) /\ fs[p].by = r

\* C6: no command is built with a cookie file that runWithRotatingCookies
\* has classified as bad before.
C6_RevokedNeverSelected ==
  server = "cookie" => reused = {}

C8_PhasesForward ==
  /\ [](\A r \in Reqs :
         (/\ req[r].ep = "gv"
          /\ Phase(req[r]) \in {1, 2, 3}
          /\ faults < MaxFaults
          /\ \/ server = "cookie"
             \/ req[r].pc \in {"encMain", "encBg"}
             \/ /\ req[r].pc \in {"dlVideo", "dlAudio", "merge", "dlBg"}
                /\ req[r].attempt = DefaultMaxRetries)
           => ENABLED (Next /\ Phase(req'[r]) = 5))
  /\ [][\A r \in Reqs :
       req[r].ep = "gv" =>
         /\ Phase(req'[r]) >= Phase(req[r])
         /\ Phase(req[r]) \in {4, 5} =>
              /\ Phase(req'[r]) = Phase(req[r])
              /\ req'[r].ran = req[r].ran
              /\ req'[r].dl = req[r].dl
              /\ req'[r].pc \in {"done", "cleanupFail"}]_vars

\* C8: one request has failed during a copy to videos/ after it went
\* through its downloads and re-encodes, another is Completed.
C8_Witness ==
  \E r1 \in Reqs, r2 \in Reqs :
    /\ req[r1].ep = "gv" /\ Phase(req[r1]) = 5
    /\ {"dlMain", "dlBg", "encMain", "encBg", "copyMain"} \subseteq req[r1].ran
    /\ req[r2].ep = "gv" /\ Phase(req[r2]) = 4

\* C9: in a request, no ffmpeg run over the segments (a re-encode, the
\* stacking of /combine-two) has started unless the downloads of the main
\* and of the background source have both succeeded.
C9_ComposeAfterDownloads ==
  \A r \in Reqs :
    (req[r].ep \in {"gv", "c2"} /\ req[r].ran \cap {"encMain", "encBg", "combine"} # {}) =>
      {"dlMain", "dlBg"} \subseteq req[r].dl

\* C9: the stacking of a /combine-two request is running.
C9_Witness ==
  \E r \in Reqs :
    /\ req[r].ep = "c2"
    /\ req[r].pc = "combine"
    /\ req[r].dl = {"dlMain", "dlBg"}

\* C10: two requests in flight at the same time use disjoint sets of paths.
C10_DisjointPaths ==
  \A r1 \in Reqs, r2 \in Reqs :
    (r1 # r2 /\ InFlight(req[r1]) /\ InFlight(req[r2])) =>
      RequestPaths(req[r1]) \cap RequestPaths(req[r2]) = {}

\* The temporary files a request wrote that are still on the disk.
OwnTempFiles(r) ==
  {p \in (IF server = "cookie" THEN CookieFailurePaths(req[r])
                               ELSE Range(ProxyCleanupPaths(req[r]))) :
     Exists(fs, p) /\ fs[p].by = r}

\* C11: once both outputs of a /get-video-urls request are published, a
\* temporary file whose deletion fails does not change the answer: the
\* request ends with the 200 response, and of its temporary files only those
\* whose deletion failed remain.
C11_CleanupNeverEscalated ==
  \A r \in Reqs :
    (server \in {"cookie", "proxy"} /\ req[r].ep = "gv"
       /\ "cleanup" \in req[r].ran /\ req[r].pc = "done")
      => /\ req[r].resp = 200
         /\ Cardinality(OwnTempFiles(r)) <= faults

\* The steps that make up the download of the main source.
MainDownloadSteps == {"dlMain", "dlVideo", "dlAudio", "merge"}

\* C12: as long as the main source of a /get-video-urls or /combine-two
\* request is not downloaded, no step other than its download has been
\* started (no background download, no composition, no publish step); and
\* when the handler has returned without it, the request has ended as a
\* failure: a 500 with a non-empty error.
C12_MainFailureStopsPipeline ==
  \A r \in Reqs :
    (req[r].ts # 0 /\ req[r].ep \in {"gv", "c2"} /\ "dlMain" \notin req[r].dl)
      => /\ req[r].ran \subseteq MainDownloadSteps
         /\ req[r].pc = "done" => req[r].resp = 500 /\ req[r].err # ""

\* Every cookie of the pool was tried for the main download and rejected.
C12_Witness ==
  \E r \in Reqs :
    /\ req[r].ep = "gv" /\ req[r].pc = "done" /\ req[r].resp = 500
    /\ req[r].err = "nocookies"
    /\ req[r].ran = {"dlMain"} /\ req[r].dl = {}

\* C13: a retryOperation call whose every attempt fails invokes the
\* operation exactly maxRetries times (3 when the argument is omitted) and is
\* then rejected with the error of the last attempt; it waits between
\* attempts only, never after the last one.
C13_RetryExhaustion ==
  server = "retry" /\ rt.state # "idle" =>
    /\ rt.defaulted => rt.maxRetries = 3
    /\ rt.calls <= rt.maxRetries
    /\ rt.waits = rt.calls - (IF rt.state = "waiting" THEN 0 ELSE 1)
    /\ rt.waits < rt.maxRetries
    /\ (\A k \in 1..rt.maxRetries : ~rt.script[k].ok)
         => /\ rt.state # "resolved"
            /\ rt.state = "rejected"
                 => /\ rt.calls = rt.maxRetries
                    /\ rt.lastError = rt.script[rt.maxRetries].val
                    /\ rt.waits = rt.maxRetries - 1

\* The default number of attempts is used up, the last error differing
\* from the one before it.
C13_Witness ==
  /\ server = "retry" /\ rt.state = "rejected" /\ rt.defaulted
  /\ rt.calls = 3 /\ rt.waits = 2
  /\ rt.script[2].val = 1 /\ rt.script[3].val = 2 /\ rt.lastError = 2

\* C14: every POST /combine-two handler answers 400 with an error, and
\* starts no download and no ffmpeg, when a source is missing, when
\* startSeconds or endSeconds does not parse as a number, or when
\* start >= end.
C14_CombineRejectsInvalid ==
  \A r \in Reqs :
    (/\ server \in CombineServers
     /\ req[r].ep = "c2"
     /\ \/ Falsy(req[r].body.main)
        \/ Falsy(req[r].body.bg)
        \/ IsNaN(Start(req[r]))
        \/ IsNaN(End(req[r]))
        \/ NumGE(Start(req[r]), End(req[r])))
      => req[r].resp = 400 /\ req[r].err # "" /\ req[r].ran = {}

\* C15: when a /combine-two request has finished after its ffmpeg ran (the
\* file was sent, sending it failed, or ffmpeg failed), none of its three
\* files is left under downloads/; stated for the runs in which no unlink
\* fails and no process leaves a partial file.
C15_CombineLeavesNoFiles ==
  \A r \in Reqs :
    (/\ server \in CombineServers
     /\ req[r].ep = "c2"
     /\ "combine" \in req[r].ran
     /\ req[r].pc = "done"
     /\ faults = 0)
      => \A p \in CombinePaths(req[r]) : ~(Exists(fs, p) /\ fs[p].by = r)

\* C16: no error of any step of a request, the clean-up in the sendFile
\* callback after the response included, leaves its handler as an uncaught
\* exception or an unhandled promise rejection.
C16_NoUnhandledError == \A r \in Reqs : ~req[r].unhandled

\* The downloaded sources the composition of a request reads.
SourcePaths(q) ==
  IF q.ep = "gv" THEN {MainSegmentPath(q), BackgroundSegmentPath(q)}
  ELSE {MainSegmentPath(q)}

\* C17: a download that reports success but leaves a zero-byte file counts
\* as a failed attempt, in the proxy and in the cookie variant alike: when
\* the composition of a request starts (its first ffmpeg over the
\* downloaded sources), none of its sources is an empty file.  Stated for a
\* request that shares its timestamp, hence its paths, with no other.
C17_NoCompositionOnEmptySource ==
  [][\A r \in Reqs :
       (/\ server \in {"cookie", "proxy"}
        /\ req'[r].pc \in {"encMain", "extract"}
        /\ req[r].pc # req'[r].pc
        /\ \A o \in Reqs \ {r} : req[o].ts # req[r].ts)
         => \A p \in SourcePaths(req'[r]) : Exists(fs', p) /\ ~IsEmptyFile(fs', p)]_vars

\* The steps of a handler that run ffmpeg.
FfmpegSteps == {"merge", "trim", "encMain", "encBg", "extract", "combine"}

\* C18: no ffmpeg step of a request is invoked a second time: a handler
\* that starts an ffmpeg step has not started that step before (so a failed
\* ffmpeg step is not retried).
C18_FfmpegAtMostOnce ==
  [][\A r \in Reqs :
       (req'[r].pc \in FfmpegSteps /\ req[r].pc # req'[r].pc)
         => req'[r].pc \notin req[r].ran]_vars

\* C19: no external process and no network attempt is waited for without
\* a bound: when the process or stream of a request never finishes, the
\* handler can still take a step that abandons the attempt (to count it as
\* a failure and end the request with a failure response).
C19_HungStepAbandoned ==
  \A r \in Reqs :
    req[r].pc = "hung" => ENABLED (NextHang /\ req'[r].pc # "hung")

\* C20: revoking a cookie twice is harmless.  When the yt-dlp of a request
\* is rejected on a cookie that another request has revoked and deleted in
\* the meantime, the second deletion changes nothing (its error is
\* swallowed), the cookie stays revoked and deleted, and the request goes on
\* with the next cookie of its list, or fails with 'No valid cookie files
\* remaining' when its list is used up.
C20_DoubleRevocation ==
  [][\A r \in Reqs :
       LET q == req[r]
           c == q.cookieFiles[q.ci]
       IN (/\ server = "cookie"
           /\ q.pc \in {"dlMain", "dlBg", "dlAudio"}
           /\ c \in revoked /\ c \notin cookies
           /\ req'[r] # q
           /\ req'[r].dl = q.dl
           /\ req'[r].err \notin ExecErrorKinds)
            => /\ cookies' = cookies
               /\ c \in revoked'
               /\ ~req'[r].unhandled
               /\ IF q.ci < Len(q.cookieFiles)
                  THEN /\ req'[r].pc = q.pc
                       /\ req'[r].ci = q.ci + 1
                       /\ req'[r].cookieFiles = q.cookieFiles
                       /\ req'[r].resp = 0
                  ELSE req'[r].resp = 500 /\ req'[r].err = "nocookies"]_vars

\* Both requests were rejected on cookie 1, which is deleted once, and both
\* are at their download with cookie 2.
C20_Witness ==
  /\ server = "cookie" /\ faults = 0
  /\ 1 \in revoked /\ 1 \notin cookies
  /\ \A r \in Reqs :
       /\ req[r].pc \in {"dlMain", "dlAudio"}
       /\ req[r].cookieFiles = <<1, 2>>
       /\ req[r].ci = 2
       /\ req[r].rej = {1}

\* C21: when a yt-dlp invocation of runWithRotatingCookies fails and its
\* stderr holds none of the indicators (no output, or a network error), no
\* cookie file is deleted or revoked, no further cookie is tried, and the
\* error is rethrown: the handler's catch answers the 500.
C21_NonAuthFailureRethrown ==
  [][\A r \in Reqs, kind \in ExecErrorKinds, stderr \in StderrKinds :
       (/\ server = "cookie"
        /\ req[r].pc \in {"dlMain", "dlBg", "dlAudio"}
        /\ ~isCookieError(<< >>, StderrText(stderr))
        /\ CookieExecFails(r, kind, stderr))
         => /\ cookies' = cookies
            /\ revoked' = revoked
            /\ req'[r].resp = 500
            /\ req'[r].pc = "cleanupFail"]_vars

\* C22: when a download of a callback-chained /combine-two handler has
\* failed (the background download after the main one succeeded, or the main
\* download after writing a partial file) and the handler has answered its
\* 500 and returned, neither mainSegment-<ts>.mp4 nor
\* backgroundSegment-<ts>.mp4 of the request is left.
C22_FailedDownloadLeavesNoSegment ==
  \A r \in Reqs :
    (/\ server \in {"combine", "combine0", "combine2b", "combine3"}
     /\ req[r].ep = "c2"
     /\ req[r].pc = "done"
     /\ req[r].resp = 500
     /\ "combine" \notin req[r].ran)
      => \A p \in {CombineMainSegmentPath(req[r]), CombineBackgroundSegmentPath(req[r])} :
           ~(Exists(fs, p) /\ fs[p].by = r)

\* C23: when a /get-video-urls request has ended with a 500, no file of
\* the request is under videos/: a main output published before the copy of
\* the background output failed has been removed.
C23_FailureLeavesNothingPublished ==
  \A r \in Reqs :
    (/\ server \in {"cookie", "proxy"}
     /\ req[r].ep = "gv"
     /\ req[r].pc = "done"
     /\ req[r].resp = 500)
      => \A p \in {PublicMainPath(req[r]), PublicBackgroundPath(req[r])} :
           ~(Exists(fs, p) /\ fs[p].by = r)

\* The indicators the claim names.
Indicators == {IndCookie, IndCert, Ind403, IndForbidden}

\* C24: isCookieError(err, stderr) returns true exactly when the
\* lower-cased concatenation of err.message and stderr (nothing for an
\* undefined stderr) contains 'cookie', 'certificate', '403' or 'forbidden'.
C24_IsCookieErrorExact ==
  (server = "text" /\ call.state = "returned") =>
    (call.result <=>
       \E ind \in Indicators :
         Includes(ToLowerCase(call.message \o call.stderr.s), ind))

\* True for an indicator in upper case that only the concatenation of the
\* message and stderr holds.
C24_Witness ==
  /\ server = "text" /\ call.state = "returned" /\ call.result
  /\ call.message = <<"C","o","o","k">>
  /\ call.stderr = JStr(<<"I","E","s"," ">>)

\* C25: the wait after failed attempt k of retryOperation, k < maxRetries,
\* lies between 0.5 and 1.0 times initialDelay * 2^(k-1) (here times 4).
C25_DelayWithinJitter ==
  (server = "retry" /\ rt.state = "waiting") =>
    LET base == DefaultInitialDelay * Pow2(rt.attempt - 1)
    IN /\ rt.attempt < rt.maxRetries
       /\ 2 * base <= rt.delay4
       /\ rt.delay4 <= 4 * base

\* Request r calls runWithRotatingCookies in this step: its handler starts,
\* or its main download has succeeded and the background one follows.
CallsRunWithRotatingCookies(r) ==
  \/ req[r].pc = "idle" /\ req'[r].ts # 0
  \/ req[r].pc = "dlMain" /\ "dlMain" \in req'[r].dl

RotationErrorMessage(err) ==
  CASE err = "nocookies" -> NoCookiesMessage
    [] err = "maxbuf" -> MaxBufferMessage
    [] OTHER -> ExecErrorMessage("exit", YtDlpCookieCmd, "none")

\* C27: when every cookie of the list was tried and rejected, the error the
\* download step throws (the one the 500 carries) holds the errors of the
\* attempts made, each an exec error 'Command failed: ...', and is not just
\* the generic message.
C27_AggregatedError ==
  \A r \in Reqs :
    (/\ server = "cookie"
     /\ req[r].pc = "cleanupFail"
     /\ req[r].err = "nocookies"
     /\ req[r].ci >= 1)
      => /\ Includes(RotationErrorMessage(req[r].err), CommandFailedPrefix)
         /\ RotationErrorMessage(req[r].err) # NoCookiesMessage

\* C28: a call of retryOperation, whatever the number of its failed
\* attempts, leaves the shared proxy pool as it was, proxyPool.currentIndex
\* included (the wrapped operation of these calls touches no shared state).
C28_RetryLeavesPoolUnchanged ==
  [][server = "retry" => proxyPool' = proxyPool]_vars

\* C29: the handler of a request calls a responding method (res.json,
\* res.status().json, the start of res.sendFile) at most once, also when
\* res.sendFile reports an error after a part of the file went out.
C29_AtMostOneResponse == \A r \in Reqs : req[r].nresp <= 1


C31_SameLength ==
  \A r \in Reqs :
    LET q == req[r]
        start == ParseFloat(q.body.ss)
        end == ParseFloat(q.body.es)
        asked == IF server = "cookie" THEN "dlBg" ELSE "encBg"
    IN (server \in {"cookie", "proxy"} /\ q.ep = "gv" /\ asked \in q.ran) =>
         /\ ~start.nan /\ ~end.nan /\ start.v < end.v
         /\ MainWindow(q) = Window(start.v, end.v)
         /\ BackgroundWindow(q) = Window(0, end.v - start.v)
         /\ BackgroundWindow(q).to - BackgroundWindow(q).from
              = MainWindow(q).to - MainWindow(q).from
         /\ MainWindow(q).to - MainWindow(q).from > 0

\* The background segment has been asked for by a request whose window does
\* not start at 0, its bounds given as a number and as text.
C31_Witness ==
  \E r \in Reqs :
    /\ req[r].ep = "gv"
    /\ (IF server = "cookie" THEN "dlBg" ELSE "encBg") \in req[r].ran
    /\ req[r].body.ss.t = "num" /\ req[r].body.es.t = "str"
    /\ MainWindow(req[r]).from # 0


\* C32: proxyPool.agents holds at most maxAgents entries, and every getAgent
\* call finds currentIndex an integer index of agents, whatever getAgent
\* calls and rotations of retryOperation came before, a rotation of the
\* empty pool included.
C32_PoolIndexValid ==
  /\ proxyPool.agents <= MaxAgents
  /\ ~proxyPool.badRead

====
